---- MODULE Spec2Model ----
(***************************************************************************)
(* ProcessImage: an Event Grid triggered function that downloads a blob,   *)
(* converts it to greyscale and uploads the result as "processed-<name>".  *)
(* The repository holds three revisions of the handler:                    *)
(*   src/src/functions/ProcessImage.ts  (variant "ProcessImage.ts")        *)
(*   src/unnamed/part_000               (variant "part_000")               *)
(*   src/unnamed/part_001               (variant "part_001")               *)
(* Each run is modelled between its awaits: one action per resumption.     *)
(***************************************************************************)
EXTENDS Integers, Sequences, FiniteSets, TLC

VARIABLES
  variant,       \* which revision of the handler is deployed
  env,           \* process.env: AzureWebJobsStorage, BLOB_CONTAINER_NAME
  srcBlobs,      \* the source container: blob name -> content
  containers,    \* the storage account's existing containers
  destBlobs,     \* the processed container: set of [name, data]
  run,           \* per run: position and local variables
  event,         \* per run: the event it was invoked with
  stream,        \* per run: the download's readableStreamBody
  calls,         \* per run: the storage client calls issued, in order
  encoderCalls,  \* per run: the formats asked of image.getBuffer
  errors,        \* per run: what context.error logged
  result,        \* per run: how the promise ProcessImage returned settled
  promise,       \* per run: the promise streamToBuffer returned
  emitted        \* per run: the events the byte source has emitted so far

vars == <<variant, env, srcBlobs, containers, destBlobs, run, event, stream,
          calls, encoderCalls, errors, result, promise, emitted>>

\* ------------------------------------------------------------------ bounds
NumRuns == 2
\* how many events the byte source emits when the collector is checked alone
MaxEvents == 4

Runs == 1..NumRuns

\* ------------------------------------------------------------- the sources
Variants == {"ProcessImage.ts", "part_000", "part_001"}

\* ------------------------------------------------------------------- bytes
\* Bytes are named by what they stand for: the JPEG magic, the PNG magic, a
\* coloured pixel, a grey pixel.
JpegMagic == "J"
PngMagic == "P"
Coloured == "c"
Grey == "g"

NoImage == [ok |-> FALSE, mime |-> "", pixels |-> <<>>]

\* ----------------------------------------------------------------- strings
\* Strings the code takes apart are sequences of characters.
Slash == "/"
Prefix == <<"p", "r", "o", "c", "e", "s", "s", "e", "d", "-">>

\* String.prototype.split(sep): the segments between separators (always at
\* least one segment, possibly empty).
RECURSIVE SplitFrom(_, _, _)
SplitFrom(s, i, cur) ==
  IF i > Len(s) THEN <<cur>>
  ELSE IF s[i] = Slash THEN <<cur>> \o SplitFrom(s, i + 1, <<>>)
  ELSE SplitFrom(s, i + 1, Append(cur, s[i]))

Split(s) == SplitFrom(s, 1, <<>>)

\* Array.prototype.pop(): the last element.
Pop(a) == a[Len(a)]

\* blobUrl.split('/').pop()
BlobNameOf(blobUrl) == Pop(Split(blobUrl))

\* A destination name that is lower-cased on the way.
Lower(c) == IF c = "B" THEN "b" ELSE c
ProcessedBlobNameLowered(blobName) ==
  Prefix \o [i \in 1..Len(blobName) |-> Lower(blobName[i])]

\* `processed-${blobName}`
ProcessedBlobName(blobName) == Prefix \o blobName

\* ------------------------------------------------------------------ events
\* event.data?.url: data may be absent, url may be absent, or url is a string.
Event(kind, url) == [kind |-> kind, url |-> url]
NoEvent == Event("none", <<>>)

Urls == { <<>>,
          <<"h", "/">>,
          <<"h", "/", "b">>,
          <<"h", "/", "B">>,
          <<"h", "/", "x">> }

Events == {Event("nodata", <<>>), Event("nourl", <<>>)}
            \cup {Event("url", u) : u \in Urls}

\* A check that only catches the absent URL and lets the empty string pass.
UrlMissingOnlyUndefined(ev) == ev.kind # "url"

\* !blobUrl : undefined or the empty string
UrlMissing(ev) == ev.kind # "url" \/ ev.url = <<>>

\* A handler without the blob name check.
NameNeverMissing(blobName) == FALSE

\* !blobName
NameMissing(blobName) == blobName = <<>>

\* ------------------------------------------------------------- environment
Undefined == "undefined"
SourceContainer == "in"
ProcessedContainer == "out"
ConnectionString == "conn"

EnvValues(good) == {Undefined, "", good}

\* !x for an environment string
Unset(x) == x = Undefined \/ x = ""

\* BlobServiceClient.fromConnectionString throws on a connection string that
\* is absent or has no endpoint.
FromConnectionStringThrows(cs) == Unset(cs)

\* if (!containerName) throw ...: only part_000 and part_001 have the check.
ChecksContainerName(v) == v \in {"part_000", "part_001"}

\* createIfNotExists() before upload: only part_000 and part_001.
CreatesContainer(v) == v \in {"part_000", "part_001"}

\* the target format handed to getBuffer
MimeType(v) == IF v = "ProcessImage.ts" THEN "image/png" ELSE "image/jpeg"

\* ----------------------------------------------------------------- storage
\* The source container's blobs: two stores the runs may meet.
GoodStore == (<<"b">> :> <<JpegMagic, Coloured>>) @@
             (<<"B">> :> <<PngMagic, Coloured>>)
BadStore == (<<"b">> :> <<>>) @@
            (<<"B">> :> <<Coloured>>)
SrcStores == {GoodStore, BadStore}

\* ------------------------------------------------------------------- image
\* Jimp.read: the format is detected from the first byte; the rest is pixels.
\* An empty buffer, or one without a known magic or without pixels, is
\* rejected.
Decode(buf) ==
  IF Len(buf) >= 2 /\ buf[1] \in {JpegMagic, PngMagic}
  THEN [ok |-> TRUE,
        mime |-> IF buf[1] = JpegMagic THEN "image/jpeg" ELSE "image/png",
        pixels |-> Tail(buf)]
  ELSE NoImage

\* image.greyscale(): every pixel becomes grey, dimensions unchanged.
Greyscale(img) ==
  [img EXCEPT !.pixels = [i \in 1..Len(img.pixels) |-> Grey]]

\* image.getBuffer(mime): the magic of the target format, then the pixels.
Encode(img, mime) ==
  <<IF mime = "image/jpeg" THEN JpegMagic ELSE PngMagic>> \o img.pixels

\* Buffer.concat(chunks)
RECURSIVE Concat(_)
Concat(chunks) ==
  IF chunks = <<>> THEN <<>> ELSE Head(chunks) \o Concat(Tail(chunks))

\* ----------------------------------------------------------- stream set-up
\* streamToBuffer registers three listeners: `readableStream?.on('data')`,
\* `readableStream?.on('end')`, `readableStream.on('error')`. An optional call
\* on null is skipped; a plain call on null throws a TypeError.
Register(body, optional) ==
  IF body = "null"
  THEN IF optional THEN "skipped" ELSE "TypeError"
  ELSE "registered"

\* `readableStream?.on('error', reject)`: optional like the other two.
OnErrorOptionalToo == TRUE

OnErrorIsOptional == FALSE

StreamToBufferSetup(body) ==
  <<Register(body, TRUE), Register(body, TRUE), Register(body, OnErrorIsOptional)>>

\* The executor throws (the promise rejects) when a registration throws.
ExecutorThrows(body) ==
  \E i \in 1..3 : StreamToBufferSetup(body)[i] = "TypeError"

\* ------------------------------------------------------ the collector
\* The promise streamToBuffer returns: pending until resolve or reject is
\* called; a settled promise ignores every later resolve and reject.
NoPromise == [state |-> "none", value |-> <<>>, reason |-> ""]
Pending == [state |-> "pending", value |-> <<>>, reason |-> ""]
Rejected(reason) == [state |-> "rejected", value |-> <<>>, reason |-> reason]

\* A listener that skips a chunk equal to the one before it.
PushChunkDeduplicating(chunks, data) ==
  IF chunks # <<>> /\ chunks[Len(chunks)] = data THEN chunks
  ELSE Append(chunks, data)

\* chunks.push(data instanceof Buffer ? data : Buffer.from(data))
PushChunk(chunks, data) == Append(chunks, data)

\* A result that the latest 'end' overwrites.
ResolveAlways(p, value) ==
  [state |-> "fulfilled", value |-> value, reason |-> ""]

\* resolve(Buffer.concat(chunks))
Resolve(p, value) ==
  IF p.state = "pending"
  THEN [state |-> "fulfilled", value |-> value, reason |-> ""]
  ELSE p

\* A collector without an 'error' listener.
RejectIgnored(p, reason) == p

\* reject(err)
Reject(p, reason) ==
  IF p.state = "pending" THEN Rejected(reason) ELSE p

\* What the byte source emits.
DataEvent(chunk) == [type |-> "data", chunk |-> chunk]
EndEvent == [type |-> "end", chunk |-> <<>>]
ErrorEvent == [type |-> "error", chunk |-> <<>>]

\* ------------------------------------------------------------ client calls
Call(op, container, name, data, status) ==
  [op |-> op, container |-> container, name |-> name, data |-> data,
   status |-> status, succeeded |-> FALSE]

Complete(cs, status, succeeded) ==
  [cs EXCEPT ![Len(cs)] = [@ EXCEPT !.status = status, !.succeeded = succeeded]]

NetworkOps == {"download", "createIfNotExists", "upload"}

\* containerClient.create(): fails with ContainerAlreadyExists when present.
CreateOnly(cs, name) ==
  IF name \in cs
  THEN [error |-> TRUE, succeeded |-> FALSE, containers |-> cs]
  ELSE [error |-> FALSE, succeeded |-> TRUE, containers |-> cs \cup {name}]

\* containerClient.createIfNotExists(): creates the container when absent,
\* reports succeeded = false (no error) when it already exists.
CreateIfNotExists(cs, name) ==
  IF name \in cs
  THEN [error |-> FALSE, succeeded |-> FALSE, containers |-> cs]
  ELSE [error |-> FALSE, succeeded |-> TRUE, containers |-> cs \cup {name}]

\* An upload that adds its blob without replacing the one of that name.
UploadKeepsOld(blobs, name, data) ==
  blobs \cup {[name |-> name, data |-> data]}

\* blockBlobClient.upload(data, length): replaces the blob of that name.
Upload(blobs, name, data) ==
  {b \in blobs : b.name # name} \cup {[name |-> name, data |-> data]}

\* Uploading the downloaded bytes instead of the processed ones.
UploadOriginal(rec) == rec.imageBuffer

\* what the upload call is given
UploadData(rec) == rec.processedImageBuffer

\* -------------------------------------------------------------------- runs
NewRun == [pc |-> "Start", failedAt |-> "", blobName |-> <<>>, chunks |-> <<>>,
           imageBuffer |-> <<>>, image |-> NoImage,
           processedImageBuffer |-> <<>>, processedBlobName |-> <<>>]

NoStream == [status |-> "none", rest |-> <<>>]
\* downloadBlockBlobResponse.readableStreamBody is undefined
NullStream == [status |-> "null", rest |-> <<>>]

\* A catch clause that rethrows after logging.
CatchRethrows == "rejected"

\* } catch (error) { context.error(...) }: the promise still resolves.
CatchOutcome == "resolved"

\* An empty catch clause: the error is swallowed without a log line.
LogNothing(log, msg) == log

\* context.error(`Failed to process image: ${error}`)
LogError(log, msg) == Append(log, msg)

\* A handler that logs the error where it happens and stays in its stage
\* instead of leaving through the catch clause.
ThrowKeepsGoing(r, stage, msg, rec, cs) ==
  /\ run' = [run EXCEPT ![r] = rec]
  /\ calls' = [calls EXCEPT ![r] = cs]
  /\ errors' = [errors EXCEPT ![r] = Append(@, msg)]
  /\ UNCHANGED result

\* A handler with a local retry: a failed call is logged and issued again.
ThrowRetries(r, stage, msg, rec, cs) ==
  /\ run' = [run EXCEPT ![r] = rec]
  /\ calls' = [calls EXCEPT ![r] =
                 IF cs = <<>> THEN cs
                 ELSE Append(cs, [cs[Len(cs)] EXCEPT !.status = "pending"])]
  /\ errors' = [errors EXCEPT ![r] = Append(@, msg)]
  /\ UNCHANGED result

\* A throw inside the try block at `stage`: the catch clause logs and returns.
Throw(r, stage, msg, rec, cs) ==
  /\ run' = [run EXCEPT ![r] = [rec EXCEPT !.pc = "Failed", !.failedAt = stage]]
  /\ calls' = [calls EXCEPT ![r] = cs]
  /\ errors' = [errors EXCEPT ![r] = LogError(@, msg)]
  /\ result' = [result EXCEPT ![r] = CatchOutcome]

StaleBlob == [name |-> ProcessedBlobName(<<"b">>), data |-> <<Coloured>>]

Init ==
  /\ variant \in Variants
  /\ env \in [AzureWebJobsStorage : EnvValues(ConnectionString),
               BLOB_CONTAINER_NAME : EnvValues(SourceContainer)]
  /\ srcBlobs \in SrcStores
  /\ \E dest \in {"absent", "empty", "stale"} :
       /\ containers = {SourceContainer} \cup
                         (IF dest = "absent" THEN {} ELSE {ProcessedContainer})
       /\ destBlobs = IF dest = "stale" THEN {StaleBlob} ELSE {}
  /\ run = [r \in Runs |-> NewRun]
  /\ event = [r \in Runs |-> NoEvent]
  /\ stream = [r \in Runs |-> NoStream]
  /\ calls = [r \in Runs |-> <<>>]
  /\ encoderCalls = [r \in Runs |-> <<>>]
  /\ errors = [r \in Runs |-> <<>>]
  /\ result = [r \in Runs |-> "pending"]
  /\ promise = [r \in Runs |-> NoPromise]
  /\ emitted = [r \in Runs |-> <<>>]

\* The host invokes ProcessImage(event, context); the handler runs up to its
\* first await (blockBlobClient.download()).
Invoke(r, ev) ==
  LET blobName == BlobNameOf(ev.url)
      named == [run[r] EXCEPT !.blobName = blobName]
      c1 == Append(calls[r],
                   Call("fromConnectionString", "", <<>>, <<>>, "ok"))
      c1err == Append(calls[r],
                   Call("fromConnectionString", "", <<>>, <<>>, "error"))
      c2 == c1 \o <<Call("getContainerClient", env.BLOB_CONTAINER_NAME,
                         <<>>, <<>>, "ok"),
                    Call("getBlockBlobClient", env.BLOB_CONTAINER_NAME,
                         blobName, <<>>, "ok"),
                    Call("download", env.BLOB_CONTAINER_NAME,
                         blobName, <<>>, "pending")>>
  IN /\ run[r].pc = "Start"
     /\ event' = [event EXCEPT ![r] = ev]
     /\ UNCHANGED <<promise, emitted>>
     /\ UNCHANGED <<variant, env, srcBlobs, containers, destBlobs, stream,
                    encoderCalls>>
     /\ IF UrlMissing(ev)
        THEN Throw(r, "ResolveIdentity", "Missing blob URL", run[r], calls[r])
        ELSE IF NameMissing(blobName)
        THEN Throw(r, "ResolveIdentity", "Missing blob name", named, calls[r])
        ELSE IF FromConnectionStringThrows(env.AzureWebJobsStorage)
        THEN Throw(r, "Configuration", "Invalid connection string", named, c1err)
        ELSE IF ChecksContainerName(variant) /\ Unset(env.BLOB_CONTAINER_NAME)
        THEN Throw(r, "Configuration",
                   "BLOB_CONTAINER_NAME environment variable is not set.",
                   named, c1)
        ELSE /\ run' = [run EXCEPT ![r] = [named EXCEPT !.pc = "Fetch"]]
             /\ calls' = [calls EXCEPT ![r] = c2]
             /\ UNCHANGED <<errors, result>>

\* Whether the blob the run asked for exists in the container it named.
BlobExists(r) ==
  /\ env.BLOB_CONTAINER_NAME \in containers
  /\ run[r].blobName \in DOMAIN srcBlobs

\* `await blockBlobClient.download()` settles; on success
\* streamToBuffer(response.readableStreamBody) starts.
DownloadReturns(r, outcome, body) ==
  /\ run[r].pc = "Fetch"
  /\ outcome = "ok" => BlobExists(r)
  /\ UNCHANGED <<variant, env, srcBlobs, containers, destBlobs, event,
                 encoderCalls, emitted>>
  /\ IF outcome # "ok"
     THEN /\ Throw(r, "Fetch", "RestError: download",
                   run[r], Complete(calls[r], "error", FALSE))
          /\ UNCHANGED <<stream, promise>>
     ELSE IF ExecutorThrows(body)
     THEN /\ Throw(r, "Collect", "TypeError: readableStream is null",
                   run[r], Complete(calls[r], "ok", TRUE))
          /\ stream' = [stream EXCEPT ![r] = NullStream]
          /\ promise' = [promise EXCEPT ![r] = Rejected("TypeError")]
     ELSE IF body = "null"
     THEN \* no listener was registered and nothing throws: nothing settles
          /\ run' = [run EXCEPT ![r] = [@ EXCEPT !.pc = "Collect"]]
          /\ calls' = [calls EXCEPT ![r] = Complete(@, "ok", TRUE)]
          /\ stream' = [stream EXCEPT ![r] = NullStream]
          /\ promise' = [promise EXCEPT ![r] = Pending]
          /\ UNCHANGED <<errors, result>>
     ELSE /\ run' = [run EXCEPT ![r] = [@ EXCEPT !.pc = "Collect"]]
          /\ calls' = [calls EXCEPT ![r] = Complete(@, "ok", TRUE)]
          /\ stream' = [stream EXCEPT ![r] =
                          [status |-> "open", rest |-> srcBlobs[run[r].blobName]]]
          /\ promise' = [promise EXCEPT ![r] = Pending]
          /\ UNCHANGED <<errors, result>>

\* readableStream.on('data', ...): the next chunk is pushed.
OnData(r) ==
  /\ run[r].pc = "Collect"
  /\ stream[r].status = "open"
  /\ stream[r].rest # <<>>
  /\ run' = [run EXCEPT ![r] = [@ EXCEPT !.chunks =
                                  PushChunk(@, <<Head(stream[r].rest)>>)]]
  /\ stream' = [stream EXCEPT ![r] = [@ EXCEPT !.rest = Tail(@)]]
  /\ emitted' = [emitted EXCEPT ![r] =
                   Append(@, DataEvent(<<Head(stream[r].rest)>>))]
  /\ UNCHANGED <<variant, env, srcBlobs, containers, destBlobs, event, calls,
                 encoderCalls, errors, result, promise>>

\* readableStream.on('end', ...): resolve(Buffer.concat(chunks)); the handler
\* resumes and calls Jimp.read(imageBuffer).
OnEnd(r) ==
  /\ run[r].pc = "Collect"
  /\ stream[r].status = "open"
  /\ stream[r].rest = <<>>
  /\ promise' = [promise EXCEPT ![r] = Resolve(@, Concat(run[r].chunks))]
  /\ run' = [run EXCEPT ![r] =
               IF promise'[r].state = "fulfilled"
               THEN [@ EXCEPT !.pc = "Decode",
                              !.imageBuffer = promise'[r].value]
               ELSE @]
  /\ stream' = [stream EXCEPT ![r] = [@ EXCEPT !.status = "ended"]]
  /\ emitted' = [emitted EXCEPT ![r] = Append(@, EndEvent)]
  /\ UNCHANGED <<variant, env, srcBlobs, containers, destBlobs, event, calls,
                 encoderCalls, errors, result>>

\* readableStream.on('error', reject): the await throws into the catch.
OnError(r) ==
  /\ run[r].pc = "Collect"
  /\ stream[r].status = "open"
  /\ stream' = [stream EXCEPT ![r] = [@ EXCEPT !.status = "errored"]]
  /\ emitted' = [emitted EXCEPT ![r] = Append(@, ErrorEvent)]
  /\ promise' = [promise EXCEPT ![r] = Reject(@, "Error: stream")]
  /\ IF promise'[r].state = "rejected"
     THEN Throw(r, "Collect", promise'[r].reason, run[r], calls[r])
     ELSE UNCHANGED <<run, calls, errors, result>>
  /\ UNCHANGED <<variant, env, srcBlobs, containers, destBlobs, event,
                 encoderCalls>>

\* `await Jimp.read(imageBuffer)` settles; on success image.greyscale() runs
\* and image.getBuffer(mime) is called.
ReadReturns(r) ==
  LET img == Decode(run[r].imageBuffer)
  IN /\ run[r].pc = "Decode"
     /\ UNCHANGED <<promise, emitted>>
     /\ UNCHANGED <<variant, env, srcBlobs, containers, destBlobs, event,
                    stream>>
     /\ IF ~img.ok
        THEN /\ Throw(r, "Decode", "Error: could not read image", run[r], calls[r])
             /\ UNCHANGED encoderCalls
        ELSE /\ run' = [run EXCEPT ![r] = [@ EXCEPT !.pc = "Encode",
                                                    !.image = Greyscale(img)]]
             /\ encoderCalls' = [encoderCalls EXCEPT ![r] =
                                   Append(@, MimeType(variant))]
             /\ UNCHANGED <<calls, errors, result>>

\* The calls from `processedBlobName = ...` up to the next await.
PublishCalls(v, name, data) ==
  <<Call("getContainerClient", ProcessedContainer, <<>>, <<>>, "ok")>> \o
  (IF CreatesContainer(v)
   THEN <<Call("createIfNotExists", ProcessedContainer, <<>>, <<>>, "pending")>>
   ELSE <<Call("getBlockBlobClient", ProcessedContainer, name, <<>>, "ok"),
          Call("upload", ProcessedContainer, name, data, "pending")>>)

\* `await image.getBuffer(mime)` settles; on success the publish begins.
GetBufferReturns(r, err) ==
  LET buf == Encode(run[r].image, MimeType(variant))
      rec == [run[r] EXCEPT !.processedImageBuffer = buf,
                            !.processedBlobName = ProcessedBlobName(run[r].blobName)]
  IN /\ run[r].pc = "Encode"
     /\ UNCHANGED <<promise, emitted>>
     /\ UNCHANGED <<variant, env, srcBlobs, containers, destBlobs, event,
                    stream, encoderCalls>>
     /\ IF err
        THEN Throw(r, "Encode", "Error: getBuffer", run[r], calls[r])
        ELSE /\ run' = [run EXCEPT ![r] =
                          [rec EXCEPT !.pc = IF CreatesContainer(variant)
                                             THEN "CreateContainer" ELSE "Upload"]]
             /\ calls' = [calls EXCEPT ![r] =
                            @ \o PublishCalls(variant, rec.processedBlobName,
                                              UploadData(rec))]
             /\ UNCHANGED <<errors, result>>

\* `await processedContainerClient.createIfNotExists()` settles; on success
\* the upload is issued.
CreateReturns(r, fault) ==
  LET res == CreateIfNotExists(containers, ProcessedContainer)
  IN /\ run[r].pc = "CreateContainer"
     /\ UNCHANGED <<promise, emitted>>
     /\ UNCHANGED <<variant, env, srcBlobs, destBlobs, event, stream,
                    encoderCalls>>
     /\ IF fault
        THEN /\ Throw(r, "CreateContainer", "RestError: createIfNotExists",
                      run[r], Complete(calls[r], "error", FALSE))
             /\ UNCHANGED containers
        ELSE IF res.error
        THEN /\ Throw(r, "CreateContainer", "RestError: ContainerAlreadyExists",
                      run[r], Complete(calls[r], "error", FALSE))
             /\ UNCHANGED containers
        ELSE /\ containers' = res.containers
             /\ run' = [run EXCEPT ![r] = [@ EXCEPT !.pc = "Upload"]]
             /\ calls' = [calls EXCEPT ![r] =
                            Complete(@, "ok", res.succeeded) \o
                            <<Call("getBlockBlobClient", ProcessedContainer,
                                   run[r].processedBlobName, <<>>, "ok"),
                              Call("upload", ProcessedContainer,
                                   run[r].processedBlobName,
                                   UploadData(run[r]), "pending")>>]
             /\ UNCHANGED <<errors, result>>

\* `await processedBlockBlobClient.upload(...)` settles; on success the
\* handler logs and returns.
UploadReturns(r, fault) ==
  LET call == calls[r][Len(calls[r])]
  IN /\ run[r].pc = "Upload"
     /\ UNCHANGED <<promise, emitted>>
     /\ UNCHANGED <<variant, env, srcBlobs, containers, event, stream,
                    encoderCalls>>
     /\ IF fault \/ ProcessedContainer \notin containers
        THEN /\ Throw(r, "Upload", "RestError: upload",
                      run[r], Complete(calls[r], "error", FALSE))
             /\ UNCHANGED destBlobs
        ELSE /\ destBlobs' = Upload(destBlobs, call.name, call.data)
             /\ run' = [run EXCEPT ![r] = [@ EXCEPT !.pc = "Done"]]
             /\ calls' = [calls EXCEPT ![r] = Complete(@, "ok", TRUE)]
             /\ result' = [result EXCEPT ![r] = "resolved"]
             /\ UNCHANGED errors

\* ------------------------------------------------- the collector alone
\* streamToBuffer on a byte source that may emit any events in any order:
\* the run that called it is suspended in its await; only the three
\* listeners act.
Collector == 1

Chunks == {<<>>, <<JpegMagic>>, <<Coloured>>, <<PngMagic, Coloured>>}

CollectingRun == [NewRun EXCEPT !.pc = "Collect", !.blobName = <<"b">>]

InitCollector ==
  /\ variant = "part_000"
  /\ env = [AzureWebJobsStorage |-> ConnectionString,
            BLOB_CONTAINER_NAME |-> SourceContainer]
  /\ srcBlobs = GoodStore
  /\ containers = {SourceContainer}
  /\ destBlobs = {}
  /\ run = [r \in Runs |-> IF r = Collector THEN CollectingRun ELSE NewRun]
  /\ event = [r \in Runs |-> IF r = Collector
                              THEN Event("url", <<"h", "/", "b">>)
                              ELSE NoEvent]
  /\ stream = [r \in Runs |-> IF r = Collector
                               THEN [status |-> "open", rest |-> <<>>]
                               ELSE NoStream]
  /\ calls = [r \in Runs |->
       IF r = Collector
       THEN <<Call("fromConnectionString", "", <<>>, <<>>, "ok"),
              Call("getContainerClient", SourceContainer, <<>>, <<>>, "ok"),
              Call("getBlockBlobClient", SourceContainer, <<"b">>, <<>>, "ok"),
              [Call("download", SourceContainer, <<"b">>, <<>>, "ok")
                 EXCEPT !.succeeded = TRUE]>>
       ELSE <<>>]
  /\ encoderCalls = [r \in Runs |-> <<>>]
  /\ errors = [r \in Runs |-> <<>>]
  /\ result = [r \in Runs |-> "pending"]
  /\ promise = [r \in Runs |-> IF r = Collector THEN Pending ELSE NoPromise]
  /\ emitted = [r \in Runs |-> <<>>]

Untouched ==
  UNCHANGED <<variant, env, srcBlobs, containers, destBlobs, event, stream,
              calls, encoderCalls, errors, result>>

\* the 'data' listener
SourceData(chunk) ==
  /\ Len(emitted[Collector]) < MaxEvents
  /\ run' = [run EXCEPT ![Collector] =
               [@ EXCEPT !.chunks = PushChunk(@, chunk)]]
  /\ emitted' = [emitted EXCEPT ![Collector] = Append(@, DataEvent(chunk))]
  /\ UNCHANGED promise
  /\ Untouched

\* the 'end' listener
SourceEnd ==
  /\ Len(emitted[Collector]) < MaxEvents
  /\ promise' = [promise EXCEPT ![Collector] =
                   Resolve(@, Concat(run[Collector].chunks))]
  /\ emitted' = [emitted EXCEPT ![Collector] = Append(@, EndEvent)]
  /\ UNCHANGED run
  /\ Untouched

\* the 'error' listener
SourceError ==
  /\ Len(emitted[Collector]) < MaxEvents
  /\ promise' = [promise EXCEPT ![Collector] = Reject(@, "Error: stream")]
  /\ emitted' = [emitted EXCEPT ![Collector] = Append(@, ErrorEvent)]
  /\ UNCHANGED run
  /\ Untouched

NextCollector ==
  \/ \E chunk \in Chunks : SourceData(chunk)
  \/ SourceEnd
  \/ SourceError

SpecCollector == InitCollector /\ [][NextCollector]_vars

Next ==
  \/ \E r \in Runs, ev \in Events : Invoke(r, ev)
  \/ \E r \in Runs, outcome \in {"ok", "error"}, body \in {"null", "stream"} :
       DownloadReturns(r, outcome, body)
  \/ \E r \in Runs : OnData(r)
  \/ \E r \in Runs : OnEnd(r)
  \/ \E r \in Runs : OnError(r)
  \/ \E r \in Runs : ReadReturns(r)
  \/ \E r \in Runs, err \in BOOLEAN : GetBufferReturns(r, err)
  \/ \E r \in Runs, fault \in BOOLEAN : CreateReturns(r, fault)
  \/ \E r \in Runs, fault \in BOOLEAN : UploadReturns(r, fault)

Spec == Init /\ [][Next]_vars

\* The steps of one run after its invocation: the settling of its awaits and
\* the events of its byte source.
Step(r) ==
  \/ \E outcome \in {"ok", "error"}, body \in {"null", "stream"} :
       DownloadReturns(r, outcome, body)
  \/ OnData(r)
  \/ OnEnd(r)
  \/ OnError(r)
  \/ ReadReturns(r)
  \/ \E err \in BOOLEAN : GetBufferReturns(r, err)
  \/ \E fault \in BOOLEAN : CreateReturns(r, fault)
  \/ \E fault \in BOOLEAN : UploadReturns(r, fault)

\* Every external call eventually returns or fails and every byte source
\* eventually signals data, end or error; the event loop then runs the
\* continuation.
FairSpec == Spec /\ \A r \in Runs : WF_vars(Step(r))

\* ------------------------------------------------------------------ claims
Finished(r) == run[r].pc \in {"Done", "Failed"}

CallsOf(r, op) == SelectSeq(calls[r], LAMBDA c : c.op = op)

NetworkCalls(r) == SelectSeq(calls[r], LAMBDA c : c.op \in NetworkOps)

\* The notification carries no usable data.url.
NoUrl(ev) == ev.kind \in {"nodata", "nourl"} \/ (ev.kind = "url" /\ ev.url = <<>>)

\* C1: a run whose notification has a missing or empty data.url ends in
\* Failed with 'Missing blob URL' and has made no storage client call at all.
C1_MissingUrlFailsWithoutCalls ==
  \A r \in Runs :
    (run[r].pc # "Start" /\ NoUrl(event[r])) =>
      /\ run[r].pc = "Failed"
      /\ run[r].failedAt = "ResolveIdentity"
      /\ errors[r] = <<"Missing blob URL">>
      /\ calls[r] = <<>>

C1_Witness ==
  \E r1, r2 \in Runs :
    /\ run[r1].pc = "Failed" /\ event[r1] = Event("url", <<>>)
    /\ run[r2].pc = "Failed" /\ event[r2].kind = "nourl"

Stages == {"ResolveIdentity", "Configuration", "Fetch", "Collect", "Decode",
           "Encode", "CreateContainer", "Upload"}

\* C2: whatever stage fails, the error is caught and logged exactly once and
\* the promise returned to the invoker resolves: it is never rejected, and it
\* is resolved exactly when the run is Done or Failed.
C2_ErrorsCaughtAndLoggedOnce ==
  \A r \in Runs :
    /\ result[r] # "rejected"
    /\ (result[r] = "resolved") <=> Finished(r)
    /\ run[r].pc = "Failed" =>
         (run[r].failedAt \in Stages /\ Len(errors[r]) = 1)
    /\ run[r].pc # "Failed" => errors[r] = <<>>

C2_Witness ==
  \E r1, r2 \in Runs :
    /\ run[r1].pc = "Failed" /\ run[r1].failedAt = "Upload"
    /\ result[r1] = "resolved"
    /\ run[r2].pc = "Done" /\ result[r2] = "resolved"

\* The final '/'-separated segment of a URL, read off its characters.
LastSlash(u) ==
  LET at == {i \in 1..Len(u) : u[i] = "/"}
  IN IF at = {} THEN 0 ELSE CHOOSE i \in at : \A j \in at : j <= i

LastSegment(u) == SubSeq(u, LastSlash(u) + 1, Len(u))

ReachedPublish(r) ==
  run[r].processedBlobName # <<>> \/ Len(CallsOf(r, "upload")) > 0

\* C3: in a run that reaches the publish, the destination name (the local
\* and the name given to upload) is "processed-" followed by the final
\* segment of the notification URL, unchanged; runs with different source
\* names have different destination names.
C3_DestinationName ==
  /\ \A r \in Runs :
       ReachedPublish(r) =>
         /\ run[r].processedBlobName =
              <<"p", "r", "o", "c", "e", "s", "s", "e", "d", "-">>
                \o LastSegment(event[r].url)
         /\ \A i \in DOMAIN calls[r] :
              calls[r][i].op \in {"upload"} =>
                calls[r][i].name = run[r].processedBlobName
  /\ \A r1, r2 \in Runs :
       (ReachedPublish(r1) /\ ReachedPublish(r2)
          /\ LastSegment(event[r1].url) # LastSegment(event[r2].url)) =>
         run[r1].processedBlobName # run[r2].processedBlobName

C3_Witness ==
  \E r1, r2 \in Runs :
    /\ run[r1].pc = "Done" /\ event[r1].url = <<"h", "/", "b">>
    /\ run[r2].pc = "Done" /\ event[r2].url = <<"h", "/", "B">>
    /\ \E b \in destBlobs :
         b.name = <<"p", "r", "o", "c", "e", "s", "s", "e", "d", "-", "B">>

\* C4: every call of the encoder asks for image/jpeg.
C4_EncoderAlwaysJpeg ==
  \A r \in Runs :
    \A i \in DOMAIN encoderCalls[r] : encoderCalls[r][i] = "image/jpeg"

\* C5: no run issues more than one upload; a run that is Done has issued
\* exactly one, which succeeded, went to the processed container and carried
\* the bytes the encoder returned in that run.
C5_ExactlyOneUpload ==
  \A r \in Runs :
    LET ups == CallsOf(r, "upload")
    IN /\ Len(ups) <= 1
       /\ run[r].pc = "Done" =>
            /\ Len(ups) = 1
            /\ ups[1].status = "ok"
            /\ ups[1].container = ProcessedContainer
            /\ Len(encoderCalls[r]) = 1
            /\ ups[1].data = Encode(run[r].image, encoderCalls[r][1])
            /\ ups[1].data = run[r].processedImageBuffer

C5_Witness ==
  \E r \in Runs :
    /\ run[r].pc = "Done"
    /\ Len(CallsOf(r, "upload")) = 1
    /\ [name |-> run[r].processedBlobName,
        data |-> run[r].processedImageBuffer] \in destBlobs

\* C6: an upload is only issued by a run whose createIfNotExists on the
\* processed container has completed before.
C6_CreateBeforeUpload ==
  \A r \in Runs :
    \A i \in DOMAIN calls[r] :
      calls[r][i].op = "upload" =>
        \E j \in 1..(i - 1) :
          /\ calls[r][j].op = "createIfNotExists"
          /\ calls[r][j].container = ProcessedContainer
          /\ calls[r][j].status = "ok"

\* C7: a run whose download has no body collects an empty buffer, fails in
\* the decoder and makes no publish attempt.
C7_NoBodyFailsInDecoder ==
  \A r \in Runs :
    (stream[r].status = "null" /\ Finished(r)) =>
      /\ run[r].pc = "Failed"
      /\ run[r].failedAt = "Decode"
      /\ run[r].imageBuffer = <<>>
      /\ Len(CallsOf(r, "createIfNotExists")) = 0
      /\ Len(CallsOf(r, "upload")) = 0

\* What a run has changed in the destination storage.
CreatedContainer(r) ==
  \E i \in DOMAIN calls[r] :
    calls[r][i].op = "createIfNotExists" /\ calls[r][i].succeeded

WroteBlob(r) ==
  \E i \in DOMAIN calls[r] :
    calls[r][i].op = "upload" /\ calls[r][i].status = "ok"

\* C8 as stated: a Failed run has changed nothing in the destination
\* storage, neither a container nor a blob.
C8_FailedRunChangedNothing ==
  \A r \in Runs :
    run[r].pc = "Failed" => (~CreatedContainer(r) /\ ~WroteBlob(r))

\* C8 amended: a Failed run has logged exactly one error and has written no
\* blob; if it failed before the publish it has made no call to the
\* destination storage; a run that fails in the publish may have created the
\* processed container.
C8_FailedRunWroteNoBlob ==
  \A r \in Runs :
    run[r].pc = "Failed" =>
      /\ Len(errors[r]) = 1
      /\ ~WroteBlob(r)
      /\ run[r].failedAt \notin {"CreateContainer", "Upload"} =>
           /\ ~CreatedContainer(r)
           /\ Len(CallsOf(r, "createIfNotExists")) = 0
           /\ Len(CallsOf(r, "upload")) = 0

C8_Witness ==
  \E r \in Runs :
    /\ run[r].pc = "Failed" /\ run[r].failedAt = "Upload"
    /\ CreatedContainer(r)
    /\ destBlobs = {}

\* C9: createIfNotExists never fails because the container exists already
\* (a run that finds it created by another run gets succeeded = false and
\* goes on); once a run's createIfNotExists has returned the container
\* exists; every Done run's destination name is held exactly once.
C9_ConcurrentCreate ==
  /\ \A r \in Runs :
       /\ errors[r] # <<"RestError: ContainerAlreadyExists">>
       /\ \A i \in DOMAIN calls[r] :
            (calls[r][i].op = "createIfNotExists" /\ calls[r][i].status = "ok")
              => ProcessedContainer \in containers
       /\ run[r].pc = "Done" =>
            Cardinality({b \in destBlobs : b.name = run[r].processedBlobName}) = 1
  /\ Cardinality({r \in Runs : CreatedContainer(r)}) <= 1

C9_Witness ==
  \E r1, r2 \in Runs :
    /\ run[r1].pc = "Done" /\ CreatedContainer(r1)
    /\ run[r2].pc = "Done" /\ ~CreatedContainer(r2)
    /\ Len(CallsOf(r2, "createIfNotExists")) = 1
    /\ CallsOf(r2, "createIfNotExists")[1].status = "ok"
    /\ run[r1].processedBlobName # run[r2].processedBlobName
    /\ Cardinality(destBlobs) = 2

\* C10: with the connection string or the source container name absent or
\* empty, a run ends in Failed without having issued a network call.
C10_MisconfiguredFailsBeforeNetwork ==
  \A r \in Runs :
    ((Unset(env.AzureWebJobsStorage) \/ Unset(env.BLOB_CONTAINER_NAME))
       /\ run[r].pc # "Start") =>
      /\ run[r].pc = "Failed"
      /\ NetworkCalls(r) = <<>>

\* C11: a run whose URL is non-empty but ends in an empty segment ends in
\* Failed with 'Missing blob name' and has made no storage client call.
C11_EmptyNameFailsWithoutCalls ==
  \A r \in Runs :
    (run[r].pc # "Start" /\ event[r].kind = "url" /\ event[r].url # <<>>
       /\ LastSegment(event[r].url) = <<>>) =>
      /\ run[r].pc = "Failed"
      /\ run[r].failedAt = "ResolveIdentity"
      /\ errors[r] = <<"Missing blob name">>
      /\ calls[r] = <<>>

C11_Witness ==
  \E r \in Runs :
    /\ run[r].pc = "Failed"
    /\ event[r] = Event("url", <<"h", "/">>)
    /\ errors[r] = <<"Missing blob name">>

\* The order of the stages of one run; the publish is CreateContainer (where
\* the revision has it) followed by Upload.
StageSteps ==
  { <<"Start", "Fetch">>, <<"Fetch", "Collect">>, <<"Collect", "Decode">>,
    <<"Decode", "Encode">>, <<"Encode", "CreateContainer">>,
    <<"Encode", "Upload">>, <<"CreateContainer", "Upload">>,
    <<"Upload", "Done">> }

Working == {"Start", "Fetch", "Collect", "Decode", "Encode",
            "CreateContainer", "Upload"}

\* C12: a run moves only from a stage to the next one, and only in a step
\* that logs no error; a step that logs an error moves it to Failed, from
\* which (as from Done) the run changes nothing more and issues no call.
C12_StageOrder ==
  [][\A r \in Runs :
       /\ run'[r].pc # run[r].pc =>
            \/ /\ <<run[r].pc, run'[r].pc>> \in StageSteps
               /\ errors'[r] = errors[r]
            \/ /\ run[r].pc \in Working
               /\ run'[r].pc = "Failed"
               /\ errors'[r] # errors[r]
       /\ errors'[r] # errors[r] => run'[r].pc = "Failed"
       /\ run[r].pc \in {"Done", "Failed"} =>
            /\ run'[r] = run[r]
            /\ calls'[r] = calls[r]
            /\ encoderCalls'[r] = encoderCalls[r]
            /\ errors'[r] = errors[r]]_vars

C12_Witness ==
  \E r1, r2 \in Runs :
    /\ run[r1].pc = "Done" /\ Len(calls[r1]) > 0
    /\ emitted[r1] # <<>> /\ Len(encoderCalls[r1]) = 1
    /\ run[r2].pc = "Failed" /\ run[r2].failedAt = "Encode"

\* C13: streamToBuffer on an absent byte source resolves with an empty
\* buffer.
C13_NullSourceYieldsEmptyBuffer ==
  \A r \in Runs :
    stream[r].status = "null" =>
      (promise[r].state = "fulfilled" /\ promise[r].value = <<>>)

\* The bytes of the data events among the first n events, in order.
RECURSIVE BytesOf(_, _)
BytesOf(evs, n) ==
  IF n = 0 THEN <<>>
  ELSE BytesOf(evs, n - 1) \o
       (IF evs[n].type = "data" THEN evs[n].chunk ELSE <<>>)

\* The position of the first 'end' or 'error' event, 0 when there is none.
FirstSettling(evs) ==
  LET at == {i \in 1..Len(evs) : evs[i].type \in {"end", "error"}}
  IN IF at = {} THEN 0 ELSE CHOOSE i \in at : \A j \in at : i <= j

ChunksThenEnd(evs) ==
  /\ Len(evs) >= 1
  /\ evs[Len(evs)].type = "end"
  /\ \A i \in 1..(Len(evs) - 1) : evs[i].type = "data"

\* C14: when the source has delivered chunks and then signalled the end, the
\* promise is fulfilled with the chunks' bytes concatenated in delivery order,
\* and the array holds exactly the delivered chunks.
C14_ConcatenationInOrder ==
  ChunksThenEnd(emitted[Collector]) =>
    /\ promise[Collector].state = "fulfilled"
    /\ promise[Collector].value =
         BytesOf(emitted[Collector], Len(emitted[Collector]))
    /\ run[Collector].chunks =
         [i \in 1..(Len(emitted[Collector]) - 1) |->
            emitted[Collector][i].chunk]

C14_Witness ==
  /\ emitted[Collector] = <<DataEvent(<<JpegMagic>>), DataEvent(<<JpegMagic>>),
                            DataEvent(<<>>), EndEvent>>
  /\ promise[Collector].state = "fulfilled"
  /\ promise[Collector].value = <<JpegMagic, JpegMagic>>

\* C15: when the source signals an error before the end, after any number of
\* chunks, the collector's promise is rejected with that error and carries no
\* buffer; the run is Failed at Collect with that error logged, and nothing
\* was decoded, transformed, encoded or published.
C15_SourceErrorAbortsRun ==
  \A r \in Runs :
    stream[r].status = "errored" =>
      /\ promise[r] = [state |-> "rejected", value |-> <<>>,
                       reason |-> "Error: stream"]
      /\ run[r].pc = "Failed"
      /\ run[r].failedAt = "Collect"
      /\ errors[r] = <<"Error: stream">>
      /\ run[r].imageBuffer = <<>>
      /\ run[r].image = NoImage
      /\ encoderCalls[r] = <<>>
      /\ run[r].processedImageBuffer = <<>>
      /\ Len(CallsOf(r, "createIfNotExists")) = 0
      /\ Len(CallsOf(r, "upload")) = 0

C15_Witness ==
  \E r1, r2 \in Runs :
    /\ stream[r1].status = "errored" /\ Len(run[r1].chunks) = 1
    /\ run[r1].pc = "Failed"
    /\ stream[r2].status = "errored" /\ Len(run[r2].chunks) = 0
    /\ run[r2].pc = "Failed"

\* C16: a run issues download, createIfNotExists and upload at most once
\* each; a call that failed is the run's last call and the run is Failed; a
\* run that failed in the fetch has issued one download, logged its cause and
\* issued nothing after it.
C16_NoLocalRetry ==
  \A r \in Runs :
    /\ \A op \in NetworkOps : Len(CallsOf(r, op)) <= 1
    /\ \A i \in DOMAIN calls[r] :
         calls[r][i].status = "error" =>
           (i = Len(calls[r]) /\ run[r].pc = "Failed")
    /\ (run[r].pc = "Failed" /\ run[r].failedAt = "Fetch") =>
         /\ Len(CallsOf(r, "download")) = 1
         /\ calls[r][Len(calls[r])].op = "download"
         /\ calls[r][Len(calls[r])].status = "error"
         /\ errors[r] = <<"RestError: download">>

C16_Witness ==
  \E r1, r2 \in Runs :
    /\ run[r1].pc = "Failed" /\ run[r1].failedAt = "Fetch"
    /\ Len(CallsOf(r1, "download")) = 1
    /\ run[r2].pc = "Failed" /\ run[r2].failedAt = "Upload"
    /\ Len(CallsOf(r2, "upload")) = 1
    /\ Len(CallsOf(r2, "createIfNotExists")) = 1

\* C17: provided every external call settles and every byte source goes on
\* to its end or an error, a run that was invoked eventually is Done or
\* Failed.
C17_EveryRunEnds ==
  \A r \in Runs : (run[r].pc # "Start") ~> Finished(r)

C17_Witness ==
  \E r1, r2 \in Runs :
    /\ run[r1].pc = "Done" /\ promise[r1].state = "fulfilled"
    /\ run[r2].pc = "Failed" /\ stream[r2].status = "null"
    /\ promise[r2].state = "rejected"

\* C18: the collector's promise is decided by the first 'end' or 'error' the
\* source emits and by nothing after it: pending before, fulfilled with the
\* bytes delivered before a first 'end', rejected after a first 'error'.
C18_SettledOnce ==
  LET evs == emitted[Collector]
      k == FirstSettling(evs)
  IN /\ k = 0 => promise[Collector] = Pending
     /\ (k > 0 /\ evs[k].type = "end") =>
          promise[Collector] = [state |-> "fulfilled",
                                value |-> BytesOf(evs, k - 1),
                                reason |-> ""]
     /\ (k > 0 /\ evs[k].type = "error") =>
          promise[Collector] = [state |-> "rejected", value |-> <<>>,
                                reason |-> "Error: stream"]

C18_Witness ==
  /\ emitted[Collector] = <<DataEvent(<<JpegMagic>>), EndEvent, ErrorEvent,
                            DataEvent(<<Coloured>>)>>
  /\ promise[Collector].state = "fulfilled"
  /\ promise[Collector].value = <<JpegMagic>>
  /\ Len(run[Collector].chunks) = 2

\* The successful uploads of all runs.
Uploaded ==
  UNION {{[name |-> calls[r][i].name, data |-> calls[r][i].data] :
            i \in {j \in DOMAIN calls[r] :
                     calls[r][j].op = "upload" /\ calls[r][j].status = "ok"}} :
         r \in Runs}

OwnDestination(r) ==
  <<"p", "r", "o", "c", "e", "s", "s", "e", "d", "-">>
    \o LastSegment(event[r].url)

\* C19: a run uploads only to "processed-" + its own source name; the
\* destination holds at most one blob per name, each blob being the blob
\* that was there before or the whole data of one successful upload to that
\* name; a Done run's destination holds the data of a run with the same
\* source name, its own when no other run uploaded to that name.
C19_RunsAreSelfContained ==
  /\ \A r \in Runs : \A i \in DOMAIN calls[r] :
       calls[r][i].op = "upload" => calls[r][i].name = OwnDestination(r)
  /\ \A b \in destBlobs : b = StaleBlob \/ b \in Uploaded
  /\ \A b1, b2 \in destBlobs : b1.name = b2.name => b1 = b2
  /\ \A r \in Runs :
       run[r].pc = "Done" =>
         \E b \in destBlobs :
           /\ b.name = OwnDestination(r)
           /\ \E r2 \in Runs :
                /\ run[r2].pc = "Done"
                /\ LastSegment(event[r2].url) = LastSegment(event[r].url)
                /\ b.data = UploadData(run[r2])
           /\ (\A r2 \in Runs \ {r} :
                 \A u \in DOMAIN calls[r2] :
                   ~(calls[r2][u].op = "upload" /\ calls[r2][u].status = "ok"
                       /\ calls[r2][u].name = b.name))
                => b.data = UploadData(run[r])

C19_Witness ==
  \E r1, r2 \in Runs :
    /\ r1 # r2
    /\ run[r1].pc = "Done" /\ run[r2].pc = "Done"
    /\ event[r1].url = event[r2].url
    /\ destBlobs = {[name |-> OwnDestination(r1),
                     data |-> run[r2].processedImageBuffer]}
    /\ StaleBlob.name = OwnDestination(r1)

====
